---------------------------- MODULE Spec2Model ----------------------------
(***************************************************************************)
(* Contact-form backend of the Rxlab landing page: three handler variants  *)
(* (the Express handler of src/server.js, and the first and the second     *)
(* serverless handler of src/api/brevo.js) validate a lead and forward it  *)
(* to the Brevo CRM, with remediation calls on duplicate-contact answers.  *)
(*                                                                         *)
(* Strings the handlers compute on (form fields) are sequences of          *)
(* one-character strings.  Messages (the CRM's and the handlers' own) are  *)
(* sequences of words; String.includes of a word or phrase is containment  *)
(* of that word sequence, which agrees with substring search on every      *)
(* message of the model's vocabulary.                                      *)
(***************************************************************************)
EXTENDS Integers, Sequences, FiniteSets, TLC

VARIABLES variant, apiKey, listEnv, req, pc, calls, http, crm, round, history

vars == <<variant, apiKey, listEnv, req, pc, calls, http, crm, round, history>>

-----------------------------------------------------------------------------
(* JavaScript string primitives                                            *)

Min(S) == CHOOSE x \in S : \A y \in S : x <= y

Max(S) == CHOOSE x \in S : \A y \in S : x >= y

IsWS(c) == c \in {" ", "\t", "\n"}

\* String.prototype.trim
Trim(s) ==
  LET keep == {i \in 1..Len(s) : ~IsWS(s[i])}
  IN  IF keep = {} THEN <<>> ELSE SubSeq(s, Min(keep), Max(keep))

LowerChar(c) ==
  CASE c = "A" -> "a" [] c = "B" -> "b" [] c = "C" -> "c" [] c = "D" -> "d"
    [] c = "J" -> "j" [] c = "M" -> "m" [] OTHER -> c

\* String.prototype.toLowerCase on a field
ToLowerCase(s) == [i \in 1..Len(s) |-> LowerChar(s[i])]

LowerWord(w) ==
  CASE w = "Contact" -> "contact" [] w = "Email" -> "email"
    [] w = "Duplicate" -> "duplicate" [] w = "SMS" -> "sms"
    [] w = "Unable" -> "unable" [] w = "Invalid" -> "invalid"
    [] w = "Key" -> "key" [] w = "Error" -> "error" [] w = "Brevo" -> "brevo"
    [] OTHER -> w

\* String.prototype.toLowerCase on a message
MsgLower(m) == [i \in 1..Len(m) |-> LowerWord(m[i])]

\* String.prototype.includes on a message
Includes(m, needle) ==
  \E i \in 1..(Len(m) - Len(needle) + 1) : SubSeq(m, i, i + Len(needle) - 1) = needle

\* String.prototype.startsWith
StartsWith(s, p) == Len(s) >= Len(p) /\ SubSeq(s, 1, Len(p)) = p

\* a || b on strings: the empty string (and undefined) is falsy
OrElse(a, b) == IF a # <<>> THEN a ELSE b


-----------------------------------------------------------------------------
(* Messages: the CRM's error messages and the handlers' own                *)

MsgContactExists == <<"Contact", "already", "exist">>

MsgSmsAssociated ==
  <<"Unable", "to", "create", "contact", "SMS", "is", "already", "associated",
    "with", "another", "Contact">>

MsgPhoneTaken == <<"phone", "number", "already", "in", "use">>

MsgInvalidPhone == <<"Invalid", "phone", "number">>

MsgKeyNotFound == <<"Key", "not", "found">>

NoMsg == <<>>

MsgDesconocido == <<"Error", "desconocido">>

MsgErrorProcesarRespuesta == <<"Error", "al", "procesar", "respuesta", "de", "Brevo">>

MsgErrorSolicitudBrevo ==
  <<"Error", "al", "procesar", "la", "solicitud", "con", "Brevo">>

MsgCreadoOActualizado ==
  <<"Contacto", "creado", "o", "actualizado", "correctamente", "en", "Brevo">>

MsgCreadoExitosamente == <<"Contacto", "creado", "exitosamente">>

MsgProcesado == <<"Contacto", "procesado", "correctamente", "en", "Brevo">>

-----------------------------------------------------------------------------
(* What a fetch of the CRM can produce: a Response, or a rejection         *)

Resp(status, ctype, body, code, msg) ==
  [kind |-> "resp", status |-> status, ctype |-> ctype, body |-> body,
   code |-> code, msg |-> msg, hasId |-> (status = 201 /\ body = "obj")]

\* fetch rejects (network failure)
Thrown ==
  [kind |-> "throw", status |-> 0, ctype |-> "none", body |-> "empty",
   code |-> "", msg |-> NoMsg, hasId |-> FALSE]

\* content-type and body of a Response that is not 204: a JSON object, an empty
\* body, text that is not JSON, or a body whose read fails
Shapes ==
  {<<"json", "obj">>, <<"json", "empty">>, <<"json", "garbage">>,
   <<"json", "broken">>, <<"none", "empty">>, <<"none", "garbage">>}

NoContent == Resp(204, "none", "empty", "", NoMsg)

Responses2xx ==
  {Resp(s, sh[1], sh[2], "", NoMsg) : s \in {200, 201, 202}, sh \in Shapes}
    \cup {NoContent}

ErrorBodies ==
  {<<"duplicate_parameter", MsgContactExists>>,
   <<"duplicate_parameter", MsgSmsAssociated>>,
   <<"duplicate_parameter", MsgPhoneTaken>>,
   <<"invalid_parameter", MsgInvalidPhone>>,
   <<"", NoMsg>>}

ResponsesError ==
  {Resp(400, "json", "obj", e[1], e[2]) : e \in ErrorBodies}
    \cup {Resp(400, "none", "obj", "duplicate_parameter", MsgSmsAssociated),
          Resp(400, "json", "empty", "", NoMsg),
          Resp(400, "json", "garbage", "", NoMsg),
          Resp(400, "json", "broken", "", NoMsg),
          Resp(400, "none", "garbage", "", NoMsg),
          Resp(401, "json", "obj", "unauthorized", MsgKeyNotFound),
          Resp(500, "json", "obj", "", NoMsg),
          Resp(500, "none", "garbage", "", NoMsg)}

Responses == Responses2xx \cup ResponsesError \cup {Thrown}

\* Response.ok
Ok(r) == r.status >= 200 /\ r.status <= 299

\* a Response with a null body (204): text() gives "" and never disturbs it
NullBody(r) == r.status = 204

\* contentType && contentType.includes('application/json')
IsJson(r) == r.ctype = "json"

\* await response.text() on a body already read (used), or whose read fails: rejects
TextThrows(r, used) == r.body = "broken" \/ (used /\ ~NullBody(r))

\* the text read: "obj" (parses to an object), "empty" (''), "garbage" (no JSON)
TextOf(r) == IF NullBody(r) THEN "empty" ELSE r.body

\* JSON.parse(text) throws
ParseThrows(text) == text # "obj"

\* await response.json(): rejects when the read fails or the text is no JSON
JsonThrows(r) == TextThrows(r, FALSE) \/ ParseThrows(TextOf(r))

-----------------------------------------------------------------------------
(* handleBrevoResponse (src/api/brevo.js)                                  *)

HbrResult(ok, status, code, message, spread, hdr, reads, used) ==
  [ok |-> ok, status |-> status, code |-> code, message |-> message,
   spread |-> spread, hdrReads |-> hdr, bodyReads |-> reads, used |-> used]

NoSpread == [ok |-> FALSE]

\* the error part of handleBrevoResponse; hdr, reads, used: what was read before
HbrError(r, hdr, reads, used) ==
  IF IsJson(r)
  THEN IF TextThrows(r, used) \/ (TextOf(r) # "empty" /\ ParseThrows(TextOf(r)))
       THEN HbrResult(FALSE, r.status, "", MsgErrorProcesarRespuesta,
                      NoSpread, hdr + 1, reads + 1, TRUE)
       ELSE IF TextOf(r) = "empty"
            THEN HbrResult(FALSE, r.status, "", MsgDesconocido,
                           NoSpread, hdr + 1, reads + 1, TRUE)
            ELSE HbrResult(FALSE, r.status, r.code, OrElse(r.msg, MsgDesconocido),
                           NoSpread, hdr + 1, reads + 1, TRUE)
  ELSE HbrResult(FALSE, r.status, "", MsgDesconocido, NoSpread, hdr + 1, reads, used)

Hbr204(r) ==
  HbrResult(TRUE, 204, "", MsgCreadoOActualizado,
            [ok |-> TRUE, status |-> 204, success |-> TRUE,
             message |-> MsgCreadoOActualizado], 0, 0, FALSE)

HbrSuccess(message, hdr, reads, used) ==
  HbrResult(TRUE, 0, "", message,
            [ok |-> TRUE, success |-> TRUE, message |-> message], hdr, reads, used)

\* a handleBrevoResponse without its 204 branch
Is204Off(r) == FALSE

Is204(r) == r.status = 204

Is200or201(r) == r.status = 200 \/ r.status = 201

handleBrevoResponse(r) ==
  IF Is204(r) THEN Hbr204(r)
  ELSE IF Is200or201(r)
  THEN IF IsJson(r)
       THEN IF TextThrows(r, FALSE) THEN HbrSuccess(MsgProcesado, 1, 1, TRUE)
            ELSE IF TextOf(r) = "empty" THEN HbrError(r, 1, 1, TRUE)
            ELSE IF ParseThrows(TextOf(r)) THEN HbrSuccess(MsgProcesado, 1, 1, TRUE)
            ELSE HbrSuccess(MsgCreadoExitosamente, 1, 1, TRUE)
       ELSE HbrSuccess(MsgCreadoExitosamente, 1, 0, FALSE)
  ELSE HbrError(r, 0, 0, FALSE)


-----------------------------------------------------------------------------
(* Form fields, validation and the payload builders                        *)

MinNameLen == 2

MinPhoneLen == 7

MinMessageLen == 10

\* req.body.k, undefined read as ''
Get(body, k) == IF k \in DOMAIN body THEN body[k] ELSE <<>>

\* src/server.js: both aliases of each field
ServerFields(body) ==
  [name    |-> Trim(OrElse(Get(body, "name"), Get(body, "Nombre"))),
   company |-> Trim(OrElse(Get(body, "company"), Get(body, "Empresa"))),
   email   |-> ToLowerCase(Trim(OrElse(Get(body, "email"), Get(body, "Email")))),
   phone   |-> Trim(OrElse(Get(body, "phone"), Get(body, "Telefono"))),
   message |-> Trim(OrElse(Get(body, "message"), Get(body, "Mensaje")))]

\* src/api/brevo.js, both handlers: the English names only
BrevoFields(body) ==
  [name    |-> Trim(Get(body, "name")),
   company |-> Trim(Get(body, "company")),
   email   |-> ToLowerCase(Trim(Get(body, "email"))),
   phone   |-> Trim(Get(body, "phone")),
   message |-> Trim(Get(body, "message"))]

\* /^[^\s@]+@[^\s@]+\.[^\s@]+$/.test(s)
EmailRegexTest(s) ==
  \E i \in 2..Len(s) : \E j \in (i + 2)..(Len(s) - 1) :
     /\ s[i] = "@"
     /\ s[j] = "."
     /\ \A k \in (1..Len(s)) \ {i} : ~IsWS(s[k]) /\ s[k] # "@"

MsgNombreRequerido ==
  <<"El nombre es requerido y debe tener al menos 2 caracteres">>

MsgEmailRequerido == <<"El email es requerido">>

MsgEmailFormato == <<"El formato del email no es valido">>

MsgMensajeRequerido ==
  <<"El mensaje es requerido y debe tener al menos 10 caracteres">>

MsgTelefonoCorto == <<"El telefono debe tener al menos 7 caracteres">>

MsgConfiguracion == <<"Error de configuracion del servidor">>

MsgMetodo == <<"Metodo no permitido">>

NameInvalid(f) == f.name = <<>> \/ Len(f.name) < MinNameLen

EmailMissing(f) == f.email = <<>>

EmailBadFormat(f) == ~EmailRegexTest(f.email)

MessageInvalid(f) == f.message = <<>> \/ Len(f.message) < MinMessageLen

PhoneInvalid(f) == f.phone # <<>> /\ Len(f.phone) < MinPhoneLen

\* the validation of src/server.js: the first failing rule's message, NoMsg if none
ServerValidate(f) ==
  IF NameInvalid(f) THEN MsgNombreRequerido
  ELSE IF EmailMissing(f) THEN MsgEmailRequerido
  ELSE IF EmailBadFormat(f) THEN MsgEmailFormato
  ELSE IF MessageInvalid(f) THEN MsgMensajeRequerido
  ELSE NoMsg

\* the validation of both handlers of src/api/brevo.js
BrevoValidate(f) ==
  IF NameInvalid(f) THEN MsgNombreRequerido
  ELSE IF EmailMissing(f) THEN MsgEmailRequerido
  ELSE IF EmailBadFormat(f) THEN MsgEmailFormato
  ELSE IF PhoneInvalid(f) THEN MsgTelefonoCorto
  ELSE NoMsg

\* !BREVO_API_KEY
\* a handler that never checks its key
KeyMissingOff(key) == FALSE

KeyMissing(key) == key = ""

IsDigit(c) == c \in {"0", "1", "2", "3", "4", "5", "6", "7", "8", "9"}

\* the longest prefix of s made of digits
RECURSIVE DigitPrefix(_)
DigitPrefix(s) ==
  IF s = <<>> \/ ~IsDigit(Head(s)) THEN <<>> ELSE <<Head(s)>> \o DigitPrefix(Tail(s))

RECURSIVE StripZeros(_)
StripZeros(d) == IF d # <<>> /\ Head(d) = "0" THEN StripZeros(Tail(d)) ELSE d

\* parseInt(s): the decimal digits of the number, leading zeros dropped; <<>> when
\* the result is falsy (NaN, or 0)
ParseInt(s) ==
  StripZeros(DigitPrefix(IF s # <<>> /\ Head(s) = "+" THEN Tail(s) ELSE s))

\* parseInt(process.env.BREVO_LIST_ID) || dflt
ListId(env, dflt) == IF ParseInt(env) # <<>> THEN ParseInt(env) ELSE dflt

\* name.split(' ')
RECURSIVE Split(_)
Split(s) ==
  LET sp == {i \in 1..Len(s) : s[i] = " "}
  IN  IF sp = {} THEN <<s>>
      ELSE <<SubSeq(s, 1, Min(sp) - 1)>> \o Split(SubSeq(s, Min(sp) + 1, Len(s)))

\* parts.join(' ')
RECURSIVE Join(_)
Join(parts) ==
  IF parts = <<>> THEN <<>>
  ELSE IF Len(parts) = 1 THEN parts[1]
  ELSE parts[1] \o <<" ">> \o Join(Tail(parts))

\* nameParts[0] || name
FirstName(name) == OrElse(Split(name)[1], name)

\* nameParts.slice(1).join(' ') || ''
LastName(name) == Join(Tail(Split(name)))


\* a payload builder that sets the company attribute whatever the field holds
OptAttrAlways(k, v) == k :> v

\* company: the EMPRESA / COMPANY attribute, only when non-empty
OptAttr(k, v) == IF v # <<>> THEN k :> v ELSE <<>>

\* phone.startsWith('+') ? phone : `+${phone}`
PhoneFormatted(phone) == IF StartsWith(phone, <<"+">>) THEN phone ELSE <<"+">> \o phone

Separators == {" ", "\t", "\n", "-", "(", ")", "."}

\* phone.replace(/[\s\-\(\)\.]/g, '')
PhoneCleaned(phone) == SelectSeq(phone, LAMBDA c : c \notin Separators)

MaxCountryCodeLen == 3

MinLocalLen == 7

\* s.replace(/^\+?\d{1,3}/, '') on an s that starts with '+'
StripPlusCode(s) ==
  LET n == Min({MaxCountryCodeLen, Len(DigitPrefix(Tail(s)))})
  IN  IF n = 0 THEN s ELSE SubSeq(s, n + 2, Len(s))

\* s.replace(/^00\d{1,3}/, '') on an s that starts with '00'
Strip00Code(s) ==
  LET n == Min({MaxCountryCodeLen, Len(DigitPrefix(SubSeq(s, 3, Len(s))))})
  IN  IF n = 0 THEN s ELSE SubSeq(s, n + 3, Len(s))

\* phoneLocal of the first handler of src/api/brevo.js; <<>> is null (no phone)
PhoneLocal(phone) ==
  IF phone = <<>> THEN <<>>
  ELSE LET cleaned  == PhoneCleaned(phone)
           stripped == IF StartsWith(cleaned, <<"+">>) THEN StripPlusCode(cleaned)
                       ELSE IF StartsWith(cleaned, <<"0", "0">>) THEN Strip00Code(cleaned)
                       ELSE cleaned
       IN  IF stripped = <<>> \/ Len(stripped) < MinLocalLen THEN cleaned ELSE stripped

\* parseInt(phoneLocal) || phoneLocal
Telefono(local) ==
  IF ParseInt(local) # <<>> THEN [number |-> TRUE, v |-> ParseInt(local)]
  ELSE [number |-> FALSE, v |-> local]

Payload(email, attributes, listId) ==
  [email |-> email, attributes |-> attributes, listIds |-> <<listId>>,
   updateEnabled |-> TRUE]

\* contactData of src/server.js
ServerContactData(f, env) ==
  Payload(f.email,
          ("NOMBRE" :> FirstName(f.name)) @@ ("APELLIDOS" :> LastName(f.name))
            @@ OptAttr("EMPRESA", f.company)
            @@ (IF f.phone # <<>> THEN "SMS" :> PhoneFormatted(f.phone) ELSE <<>>),
          ListId(env, <<"4">>))

\* a retry payload that drops the company along with the phone
ServerContactDataWithoutPhoneNorCompany(f, env) ==
  Payload(f.email,
          ("NOMBRE" :> FirstName(f.name)) @@ ("APELLIDOS" :> LastName(f.name)),
          ListId(env, <<"4">>))

\* contactDataWithoutPhone of src/server.js
ServerContactDataWithoutPhone(f, env) ==
  Payload(f.email,
          ("NOMBRE" :> FirstName(f.name)) @@ ("APELLIDOS" :> LastName(f.name))
            @@ OptAttr("EMPRESA", f.company),
          ListId(env, <<"4">>))

\* contactData of the first handler of src/api/brevo.js
Brevo1ContactData(f, env) ==
  Payload(f.email,
          ("NOMBRE" :> FirstName(f.name)) @@ ("APELLIDOS" :> LastName(f.name))
            @@ OptAttr("EMPRESA", f.company)
            @@ (IF f.phone # <<>>
                THEN ("TELEFONO" :> Telefono(PhoneLocal(f.phone)))
                       @@ ("SMS" :> PhoneLocal(f.phone))
                ELSE <<>>),
          ListId(env, <<"2">>))

\* a backup payload that keeps the unique SMS attribute next to PHONE_BACKUP
Brevo1ContactDataWithBackupAndSms(f, env) ==
  Payload(f.email,
          ("NOMBRE" :> FirstName(f.name)) @@ ("APELLIDOS" :> LastName(f.name))
            @@ ("PHONE_BACKUP" :> PhoneLocal(f.phone))
            @@ ("SMS" :> PhoneLocal(f.phone))
            @@ OptAttr("EMPRESA", f.company),
          ListId(env, <<"2">>))

\* contactDataWithBackup of the first handler of src/api/brevo.js
Brevo1ContactDataWithBackup(f, env) ==
  Payload(f.email,
          ("NOMBRE" :> FirstName(f.name)) @@ ("APELLIDOS" :> LastName(f.name))
            @@ ("PHONE_BACKUP" :> PhoneLocal(f.phone))
            @@ OptAttr("EMPRESA", f.company),
          ListId(env, <<"2">>))

\* contactData of the second handler of src/api/brevo.js
Brevo2ContactData(f, env) ==
  Payload(f.email,
          ("FIRSTNAME" :> FirstName(f.name)) @@ ("LASTNAME" :> LastName(f.name))
            @@ (IF f.phone # <<>> THEN "SMS" :> PhoneFormatted(f.phone) ELSE <<>>)
            @@ OptAttr("COMPANY", f.company),
          ListId(env, <<"2">>))

\* contactDataWithoutPhone of the second handler of src/api/brevo.js
Brevo2ContactDataWithoutPhone(f, env) ==
  Payload(f.email,
          ("FIRSTNAME" :> FirstName(f.name)) @@ ("LASTNAME" :> LastName(f.name))
            @@ OptAttr("COMPANY", f.company),
          ListId(env, <<"2">>))

\* encodeURIComponent on an email: '@' is escaped, the unreserved characters are kept
RECURSIVE EncodeURIComponent(_)
EncodeURIComponent(s) ==
  IF s = <<>> THEN <<>>
  ELSE (IF Head(s) = "@" THEN <<"%", "4", "0">>
        ELSE IF Head(s) = "+" THEN <<"%", "2", "B">>
        ELSE <<Head(s)>>) \o EncodeURIComponent(Tail(s))


-----------------------------------------------------------------------------
(* Requests, the log of outbound calls and the responses sent              *)

NameJane == <<"J", "a", "n", "e", " ", "D", "o", "e">>

\* 'Jane  Doe', two spaces between the tokens
NameTwoSpaces == <<"J", "a", "n", "e", " ", " ", "D", "o", "e">>

\* 'Jane\tDoe', a tab between the tokens
NameTab == <<"J", "a", "n", "e", "\t", "D", "o", "e">>

NameMadonna == <<"M", "a", "d", "o", "n", "n", "a">>

EmailPlain == <<"a", "@", "b", ".", "c">>

EmailUpperPadded == <<" ", "A", "@", "B", ".", "c", " ">>

PhoneLocal7 == <<"5", "5", "1", "2", "3", "4", "5">>

PhoneIntl ==
  <<"+", "5", "2", " ", "(", "5", "5", ")", " ", "1", "2", "3", "4", "-", "5", "6", "7", "8">>

\* 8 characters, 4 of them separators
PhoneSeparators == <<"(", "1", "2", ")", " ", "3", "-", "4">>

CompanyAcme == <<"A", "c", "m", "e">>

MessageOk == <<"h", "o", "l", "a", " ", "m", "u", "n", "d", "o">>

MessageShort == <<"h", "i">>

\* a company field of white space only
CompanyBlank == <<" ", " ">>

FullLead ==
  [name |-> NameJane, email |-> EmailPlain, phone |-> PhoneLocal7,
   company |-> CompanyAcme, message |-> MessageOk]

Bodies ==
  {FullLead,
   [name |-> NameMadonna, email |-> EmailUpperPadded, message |-> MessageOk],
   [name |-> NameJane, email |-> EmailPlain, phone |-> PhoneIntl, message |-> MessageOk],
   [Nombre |-> NameJane, Email |-> EmailPlain, Telefono |-> PhoneLocal7,
    Empresa |-> CompanyAcme, Mensaje |-> MessageOk],
   [FullLead EXCEPT !.name = <<"J">>],
   [name |-> NameJane, phone |-> PhoneLocal7, message |-> MessageOk],
   [FullLead EXCEPT !.email = <<"n", "o", "t">>],
   [FullLead EXCEPT !.phone = <<"1", "2", "3", "4", "5">>],
   [name |-> NameMadonna, email |-> EmailPlain, phone |-> PhoneSeparators,
    company |-> CompanyBlank, message |-> MessageOk],
   [name |-> NameMadonna, email |-> EmailPlain, message |-> MessageShort],
   [name |-> NameTwoSpaces, email |-> EmailPlain, message |-> MessageOk],
   [name |-> NameTab, email |-> EmailPlain, message |-> MessageOk]}

Variants == {"server", "brevo1", "brevo2"}

\* app.post routes only POST requests to the handler of src/server.js
Requests ==
  {[method |-> "POST", body |-> b] : b \in Bodies}
    \cup {[method |-> "GET", body |-> FullLead],
          [method |-> "GET", body |-> [FullLead EXCEPT !.name = <<"J">>]]}

ApiKeys == {"", "xkeysib-1"}

ListEnvs == {<<>>, <<"7">>}

Pending ==
  [kind |-> "pending", status |-> 0, ctype |-> "none", body |-> "empty",
   code |-> "", msg |-> NoMsg, hasId |-> FALSE]

ContactsPath == "/v3/contacts"

SmtpPath == "/v3/smtp/email"

\* a fetch of the CRM: the call as issued, its answer still pending
Call(method, path, id, payload) ==
  [method |-> method, path |-> path, id |-> id, key |-> apiKey,
   payload |-> payload, resp |-> Pending, hdrReads |-> 0, bodyReads |-> 0]

\* a handler that does not await its fetch: the call stays in flight
AnsweredNotAwaited(r, hdr, reads) == calls

\* the log with the pending call answered by r, and what the handler read of r
Answered(r, hdr, reads) ==
  [calls EXCEPT ![Len(calls)] =
     [@ EXCEPT !.resp = r, !.hdrReads = hdr, !.bodyReads = reads]]

\* an outcome of a handler step: it sends the response, or issues the next call
Send(status, body) == [kind |-> "send", status |-> status, body |-> body]

Fetch(next, call) == [kind |-> "fetch", next |-> next, call |-> call]

\* a handler without its outer catch: a fetch that throws ends it, nothing is sent
StepUncaught(r, hdr, reads, outcome) ==
  /\ \E o \in {outcome} :
        IF o.kind = "send"
        THEN /\ calls' = Answered(r, hdr, reads)
             /\ http' = IF r.kind = "throw"
                        THEN http
                        ELSE Append(http, [status |-> o.status, body |-> o.body])
             /\ pc' = "done"
        ELSE /\ calls' = Append(Answered(r, hdr, reads), o.call)
             /\ http' = http
             /\ pc' = o.next
  /\ UNCHANGED <<variant, apiKey, listEnv, req, round, history>>

\* the handler runs from the answer r of the pending call to its outcome o
Step(r, hdr, reads, outcome) ==
  /\ \E o \in {outcome} :
        IF o.kind = "send"
        THEN /\ calls' = Answered(r, hdr, reads)
             /\ http' = Append(http, [status |-> o.status, body |-> o.body])
             /\ pc' = "done"
        ELSE /\ calls' = Append(Answered(r, hdr, reads), o.call)
             /\ http' = http
             /\ pc' = o.next
  /\ UNCHANGED <<variant, apiKey, listEnv, req, round, history>>

\* the handler runs from the request to its first outcome; no call is answered
Begin(outcome) ==
  /\ \E o \in {outcome} :
        IF o.kind = "send"
        THEN /\ calls' = calls
             /\ http' = Append(http, [status |-> o.status, body |-> o.body])
             /\ pc' = "done"
        ELSE /\ calls' = Append(calls, o.call)
             /\ http' = http
             /\ pc' = o.next
  /\ UNCHANGED <<variant, apiKey, listEnv, req, round, history, crm>>

MsgErrorInternoServidor == <<"Error interno del servidor">>

-----------------------------------------------------------------------------
(* The first handler of src/api/brevo.js                                   *)

\* the responses sent before any call: 405, the validation's 400, the configuration's 500
\* a handler that looks at the method after the input and the configuration
Brevo1EarlyMethodLast(method, f, key) ==
  IF BrevoValidate(f) # NoMsg
  THEN Send(400, [ok |-> FALSE, error |-> BrevoValidate(f)])
  ELSE IF KeyMissing(key)
  THEN Send(500, [ok |-> FALSE, error |-> MsgConfiguracion])
  ELSE IF method # "POST" THEN Send(405, [ok |-> FALSE, error |-> MsgMetodo])
  ELSE Send(0, [ok |-> TRUE])

Brevo1Early(method, f, key) ==
  IF method # "POST" THEN Send(405, [ok |-> FALSE, error |-> MsgMetodo])
  ELSE IF BrevoValidate(f) # NoMsg
  THEN Send(400, [ok |-> FALSE, error |-> BrevoValidate(f)])
  ELSE IF KeyMissing(key)
  THEN Send(500, [ok |-> FALSE, error |-> MsgConfiguracion])
  ELSE Send(0, [ok |-> TRUE])

Brevo1CreateCall(f) ==
  Call("POST", ContactsPath, <<>>, Brevo1ContactData(f, listEnv))

Brevo1Start ==
  /\ pc = "start"
  /\ variant = "brevo1"
  /\ \E f \in {BrevoFields(req.body)} :
       LET early == Brevo1Early(req.method, f, apiKey)
       IN  Begin(IF early.status # 0 THEN early ELSE Fetch("create", Brevo1CreateCall(f)))

\* isEmailDuplicate
IsEmailDuplicate(code, message) ==
  code = "duplicate_parameter"
    /\ (Includes(MsgLower(message), <<"email">>)
          \/ Includes(MsgLower(message), <<"contact">>))

\* isSMSDuplicate
IsSMSDuplicate(code, message) ==
  code = "duplicate_parameter"
    /\ (Includes(message, <<"SMS">>) \/ Includes(message, <<"phone">>)
          \/ Includes(message, <<"telefono">>) \/ Includes(message, <<"mobile">>))

\* the data of a success response
Data(f) == [email |-> f.email, name |-> f.name, phone |-> f.phone,
            company |-> f.company, message |-> f.message]

\* the last response of the first handler: the error of the initial create
Brevo1FinalError(status, code, message) ==
  Send(500, [ok |-> FALSE, status |-> status, code |-> code,
             error |-> OrElse(message, MsgErrorSolicitudBrevo)])

\* the handler from the answer of the initial create
Brevo1AfterCreate(f, r) ==
  IF r.kind = "throw" THEN Send(500, [ok |-> FALSE, error |-> MsgErrorInternoServidor])
  ELSE LET res          == handleBrevoResponse(r)
           errorMessage == OrElse(res.message, MsgDesconocido)
       IN  IF res.ok THEN Send(200, res.spread @@ [data |-> Data(f)])
           ELSE IF r.status = 400
                   /\ (IsEmailDuplicate(res.code, errorMessage)
                         \/ IsSMSDuplicate(res.code, errorMessage))
           THEN Fetch("update", Call("PUT", ContactsPath, EncodeURIComponent(f.email),
                                     Brevo1ContactData(f, listEnv)))
           ELSE Brevo1FinalError(r.status, res.code, errorMessage)

\* what handleBrevoResponse read of the answer r (nothing of a rejected fetch)
HdrReads(r) == IF r.kind = "throw" THEN 0 ELSE handleBrevoResponse(r).hdrReads

BodyReads(r) == IF r.kind = "throw" THEN 0 ELSE handleBrevoResponse(r).bodyReads

Brevo1OnCreate(r) ==
  /\ pc = "create"
  /\ variant = "brevo1"
  /\ \E f \in {BrevoFields(req.body)} :
       Step(r, HdrReads(r), BodyReads(r), Brevo1AfterCreate(f, r))


\* the initial create's answer, as the handler keeps it across the later calls
InitialResp == calls[1].resp

Brevo1ErrorCode == handleBrevoResponse(InitialResp).code

Brevo1ErrorMessage == OrElse(handleBrevoResponse(InitialResp).message, MsgDesconocido)

\* a handler whose backup step sends the payload of the create again
Brevo1BackupCallSamePayload(method, id, f) ==
  Call(method, ContactsPath, id, Brevo1ContactData(f, listEnv))

Brevo1BackupCall(method, id, f) ==
  Call(method, ContactsPath, id, Brevo1ContactDataWithBackup(f, listEnv))

\* updateErrorMessage.includes('SMS') || ...('phone') || ...('telefono')
IsSMSStillDuplicate(message) ==
  Includes(message, <<"SMS">>) \/ Includes(message, <<"phone">>)
    \/ Includes(message, <<"telefono">>)

\* from line 314 on: the backup step when the flag (or an SMS-only duplicate) asks
\* for it and there is a phone, else the error of the initial create
Brevo1Case2(f, shouldUseBackup) ==
  IF (shouldUseBackup
        \/ (IsSMSDuplicate(Brevo1ErrorCode, Brevo1ErrorMessage)
              /\ ~IsEmailDuplicate(Brevo1ErrorCode, Brevo1ErrorMessage)))
       /\ PhoneLocal(f.phone) # <<>>
  THEN Fetch("backupPost", Brevo1BackupCall("POST", <<>>, f))
  ELSE Brevo1FinalError(InitialResp.status, Brevo1ErrorCode, Brevo1ErrorMessage)

\* catch (updateError): the backup step if the initial create reported the SMS
Brevo1UpdateCatch(f) ==
  IF IsSMSDuplicate(Brevo1ErrorCode, Brevo1ErrorMessage) /\ PhoneLocal(f.phone) # <<>>
  THEN Brevo1Case2(f, TRUE)
  ELSE Send(500, [ok |-> FALSE, error |-> MsgErrorSolicitudBrevo])

\* the handler from the answer of the PUT by email
Brevo1AfterUpdate(f, r) ==
  IF r.kind = "throw" THEN Brevo1UpdateCatch(f)
  ELSE LET res == handleBrevoResponse(r)
       IN  IF res.ok THEN Send(200, res.spread @@ [data |-> Data(f)])
           ELSE IF TextThrows(r, res.used) THEN Brevo1UpdateCatch(f)
           ELSE LET parsed  == ~ParseThrows(TextOf(r))
                    message == IF parsed THEN r.msg ELSE NoMsg
                IN  IF IsSMSStillDuplicate(message) /\ PhoneLocal(f.phone) # <<>>
                    THEN Brevo1Case2(f, TRUE)
                    ELSE Send(500,
                              (IF parsed /\ r.code # "" THEN [code |-> r.code] ELSE <<>>)
                                @@ [ok |-> FALSE, status |-> r.status,
                                    error |-> OrElse(message, MsgErrorSolicitudBrevo)])

\* the reads of the PUT's answer: handleBrevoResponse's, and the handler's own text()
Brevo1UpdateBodyReads(r) ==
  IF r.kind = "throw" THEN 0
  ELSE BodyReads(r) + (IF handleBrevoResponse(r).ok THEN 0 ELSE 1)

Brevo1OnUpdate(r) ==
  /\ pc = "update"
  /\ variant = "brevo1"
  /\ \E f \in {BrevoFields(req.body)} :
       Step(r, HdrReads(r), Brevo1UpdateBodyReads(r),
             Brevo1AfterUpdate(f, r))

MsgCreadoRespaldo ==
  <<"Contacto creado exitosamente (telefono guardado como respaldo)">>

MsgActualizadoRespaldo ==
  <<"Contacto actualizado exitosamente (telefono guardado como respaldo)">>

\* the handler from the answer of the backup POST
Brevo1AfterBackupPost(f, r) ==
  IF r.kind = "throw"
  THEN Brevo1FinalError(InitialResp.status, Brevo1ErrorCode, Brevo1ErrorMessage)
  ELSE LET res == handleBrevoResponse(r)
       IN  IF res.ok
           THEN Send(200, [message |-> MsgCreadoRespaldo, data |-> Data(f)] @@ res.spread)
           ELSE Fetch("backupPut",
                      Brevo1BackupCall("PUT", EncodeURIComponent(f.email), f))

Brevo1OnBackupPost(r) ==
  /\ pc = "backupPost"
  /\ variant = "brevo1"
  /\ \E f \in {BrevoFields(req.body)} :
       Step(r, HdrReads(r), BodyReads(r), Brevo1AfterBackupPost(f, r))

\* the handler from the answer of the backup PUT
Brevo1AfterBackupPut(f, r) ==
  IF r.kind # "throw" /\ handleBrevoResponse(r).ok
  THEN Send(200, [message |-> MsgActualizadoRespaldo, data |-> Data(f)]
                   @@ handleBrevoResponse(r).spread)
  ELSE Brevo1FinalError(InitialResp.status, Brevo1ErrorCode, Brevo1ErrorMessage)

Brevo1OnBackupPut(r) ==
  /\ pc = "backupPut"
  /\ variant = "brevo1"
  /\ \E f \in {BrevoFields(req.body)} :
       Step(r, HdrReads(r), BodyReads(r), Brevo1AfterBackupPut(f, r))

-----------------------------------------------------------------------------
(* The Express handler of src/server.js                                    *)

MsgErrorInternoIntenta == <<"Error interno del servidor. Por favor intenta mas tarde.">>

MsgComunicacion(status) ==
  <<"Error de comunicacion con Brevo (status:", ToString(status), ")">>

MsgApiKeyInvalida == <<"API Key invalida o expirada">>

MsgNoEncontrado == <<"Recurso no encontrado (verifica el ID de lista)">>

MsgDatosNoValidos ==
  <<"Algunos datos no son validos (verifica el formato del telefono)">>

MsgDatosInvalidos == <<"Datos invalidos">>

MsgErrorSolicitud == <<"Error al procesar la solicitud">>

MsgEnviado == <<"Mensaje enviado correctamente">>

PhraseSmsAssociated ==
  <<"SMS", "is", "already", "associated", "with", "another", "Contact">>

\* the responses sent before any call: the validation's 400, the configuration's 500
\* an Express handler that reads its configuration before it validates
ServerEarlyKeyFirst(f, key) ==
  IF key = "" THEN Send(500, [error |-> MsgConfiguracion])
  ELSE IF ServerValidate(f) # NoMsg THEN Send(400, [error |-> ServerValidate(f)])
  ELSE Send(0, [ok |-> TRUE])

ServerEarly(f, key) ==
  IF ServerValidate(f) # NoMsg THEN Send(400, [error |-> ServerValidate(f)])
  ELSE IF KeyMissing(key) THEN Send(500, [error |-> MsgConfiguracion])
  ELSE Send(0, [ok |-> TRUE])

ServerStart ==
  /\ pc = "start"
  /\ variant = "server"
  /\ \E f \in {ServerFields(req.body)} :
       LET early == ServerEarly(f, apiKey)
       IN  Begin(IF early.status # 0 THEN early
               ELSE Fetch("create", Call("POST", ContactsPath, <<>>,
                                         ServerContactData(f, listEnv))))

\* catch (error) of the whole handler
\* an Express handler whose catch reports what it holds, the API key included
ServerCatchTellsKey == Send(500, [error |-> <<apiKey>>])

ServerCatch == Send(500, [error |-> MsgErrorInternoIntenta])

NotifyCall(f) ==
  Call("POST", SmtpPath, <<>>,
       [name |-> f.name, company |-> f.company, email |-> f.email,
        phone |-> f.phone, message |-> f.message])

\* the error message chosen for the client from the CRM's status, code and message
ServerErrorMessage(r) ==
  IF r.status = 401 THEN MsgApiKeyInvalida
  ELSE IF r.status = 404 THEN MsgNoEncontrado
  ELSE IF r.status = 400
  THEN IF r.msg # NoMsg THEN r.msg
       ELSE IF r.code = "invalid_parameter" THEN MsgDatosNoValidos
       ELSE MsgDatosInvalidos
  ELSE IF r.msg # NoMsg THEN r.msg
  ELSE MsgErrorSolicitud

\* status === 400 && message?.includes('SMS is already associated with another Contact')
ServerIsSmsConflict(r) == r.status = 400 /\ Includes(r.msg, PhraseSmsAssociated)

\* status === 400 && (code === 'duplicate_parameter' || message includes 'duplicate')
ServerIsDuplicate(r) ==
  r.status = 400
    /\ (r.code = "duplicate_parameter" \/ Includes(MsgLower(r.msg), <<"duplicate">>))

\* the body of a Response is parsed only under a JSON content-type; a 2xx is
\* a success only after that
ServerAfterCreate(f, r) ==
  IF r.kind = "throw" \/ TextThrows(r, FALSE) THEN ServerCatch
  ELSE IF IsJson(r)
  THEN IF ParseThrows(TextOf(r)) THEN Send(500, [error |-> MsgErrorProcesarRespuesta])
       ELSE IF Ok(r) THEN Fetch("notify", NotifyCall(f))
       ELSE IF ServerIsSmsConflict(r)
       THEN Fetch("retry", Call("POST", ContactsPath, <<>>,
                                ServerContactDataWithoutPhone(f, listEnv)))
       ELSE IF ServerIsDuplicate(r) THEN Fetch("notify", NotifyCall(f))
       ELSE Send(500, [error |-> ServerErrorMessage(r)])
  ELSE Send(500, [error |-> MsgComunicacion(r.status), details |-> TextOf(r)])

\* contentType is read and text() awaited on every Response
ReadOnce(r) == IF r.kind = "throw" THEN 0 ELSE 1

ServerOnCreate(r) ==
  /\ pc = "create"
  /\ variant = "server"
  /\ \E f \in {ServerFields(req.body)} :
       Step(r, ReadOnce(r), ReadOnce(r), ServerAfterCreate(f, r))

\* the retry without phone: its 2xx is read with json(), its error with text(); the
\* notification follows either way
ServerAfterRetry(f, r) ==
  IF r.kind = "throw" THEN ServerCatch
  ELSE IF Ok(r) /\ JsonThrows(r) THEN ServerCatch
  ELSE IF ~Ok(r) /\ TextThrows(r, FALSE) THEN ServerCatch
  ELSE Fetch("notify", NotifyCall(f))

ServerOnRetry(r) ==
  /\ pc = "retry"
  /\ variant = "server"
  /\ \E f \in {ServerFields(req.body)} :
       Step(r, 0, ReadOnce(r), ServerAfterRetry(f, r))

\* whether the try around the notification call ends in its catch
NotifyThrows(r) == r.kind = "throw" \/ (~Ok(r) /\ TextThrows(r, FALSE))

\* brevoResult.id || 'contacto actualizado'
ServerId(r) == IF r.hasId THEN <<"id">> ELSE <<"contacto actualizado">>

ServerSuccess ==
  Send(200, [success |-> TRUE, message |-> MsgEnviado, id |-> ServerId(InitialResp)])

\* the catch of the notification swallows what the call throws
\* an Express handler whose notification is outside the inner try
ServerAfterNotifyUncaught(r) == IF NotifyThrows(r) THEN ServerCatch ELSE ServerSuccess

ServerAfterNotify(r) == IF NotifyThrows(r) THEN ServerSuccess ELSE ServerSuccess

ServerOnNotify(r) ==
  /\ pc = "notify"
  /\ variant = "server"
  /\ Step(r, 0, IF r.kind # "throw" /\ ~Ok(r) THEN 1 ELSE 0, ServerAfterNotify(r))

-----------------------------------------------------------------------------
(* The second handler of src/api/brevo.js                                  *)

MsgCreadoSinTelefono ==
  <<"Contacto creado exitosamente (telefono no pudo ser asociado)">>

MsgActualizado == <<"Contacto actualizado exitosamente">>

Brevo2Early(method, f, key) ==
  IF method # "POST" THEN Send(405, [error |-> MsgMetodo])
  ELSE IF BrevoValidate(f) # NoMsg THEN Send(400, [error |-> BrevoValidate(f)])
  ELSE IF KeyMissing(key) THEN Send(500, [error |-> MsgConfiguracion])
  ELSE Send(0, [ok |-> TRUE])

Brevo2Start ==
  /\ pc = "start"
  /\ variant = "brevo2"
  /\ \E f \in {BrevoFields(req.body)} :
       LET early == Brevo2Early(req.method, f, apiKey)
       IN  Begin(IF early.status # 0 THEN early
               ELSE Fetch("create", Call("POST", ContactsPath, <<>>,
                                         Brevo2ContactData(f, listEnv))))

Brevo2Catch == Send(500, [error |-> MsgErrorInternoServidor])

\* brevoResult.message || 'Error desconocido' of the initial create
Brevo2ErrorMessage(r) == OrElse(r.msg, MsgDesconocido)

\* a handler that takes only a duplicate that is not about the phone for Caso 1
Brevo2IsDuplicateNotPhone(r) ==
  /\ r.code = "duplicate_parameter"
       \/ Includes(MsgLower(Brevo2ErrorMessage(r)), <<"duplicate">>)
  /\ ~IsSMSStillDuplicate(Brevo2ErrorMessage(r))

\* errorCode === 'duplicate_parameter' || errorMessage.toLowerCase().includes('duplicate')
Brevo2IsDuplicate(r) ==
  r.code = "duplicate_parameter"
    \/ Includes(MsgLower(Brevo2ErrorMessage(r)), <<"duplicate">>)

\* errorMessage.includes('SMS') || ...('phone') || ...('telefono')
Brevo2IsPhoneConflict(r) == IsSMSStillDuplicate(Brevo2ErrorMessage(r))

Brevo2FinalError(r) ==
  Send(500, [error |-> OrElse(Brevo2ErrorMessage(r), MsgErrorSolicitudBrevo)])

\* Caso 2 and what follows it; r is the answer of the initial create
Brevo2Case2(f, r) ==
  IF Brevo2IsPhoneConflict(r)
  THEN Fetch("retry", Call("POST", ContactsPath, <<>>,
                           Brevo2ContactDataWithoutPhone(f, listEnv)))
  ELSE Brevo2FinalError(r)

Brevo2Success(message, f) ==
  Send(200, [success |-> TRUE, message |-> message, data |-> Data(f)])

Brevo2AfterCreate(f, r) ==
  IF r.kind = "throw" \/ TextThrows(r, FALSE) THEN Brevo2Catch
  ELSE IF IsJson(r)
  THEN IF ParseThrows(TextOf(r)) THEN Send(500, [error |-> MsgErrorProcesarRespuesta])
       ELSE IF Ok(r) THEN Brevo2Success(MsgCreadoExitosamente, f)
       ELSE IF r.status = 400
       THEN IF Brevo2IsDuplicate(r)
            THEN Fetch("update", Call("PUT", ContactsPath, EncodeURIComponent(f.email),
                                      Brevo2ContactData(f, listEnv)))
            ELSE Brevo2Case2(f, r)
       ELSE Brevo2FinalError(r)
  ELSE Send(500, [error |-> MsgComunicacion(r.status)])

Brevo2OnCreate(r) ==
  /\ pc = "create"
  /\ variant = "brevo2"
  /\ \E f \in {BrevoFields(req.body)} :
       Step(r, ReadOnce(r), ReadOnce(r), Brevo2AfterCreate(f, r))

\* the PUT by email: its 2xx is read with json(); what the try throws is swallowed
Brevo2AfterUpdate(f, r) ==
  IF r.kind # "throw" /\ Ok(r) /\ ~JsonThrows(r)
  THEN Brevo2Success(MsgActualizado, f)
  ELSE Brevo2Case2(f, InitialResp)

Brevo2OnUpdate(r) ==
  /\ pc = "update"
  /\ variant = "brevo2"
  /\ \E f \in {BrevoFields(req.body)} :
       Step(r, 0, ReadOnce(r), Brevo2AfterUpdate(f, r))

\* the retry without phone: a 2xx is a success, its body unread
Brevo2AfterRetry(f, r) ==
  IF r.kind # "throw" /\ Ok(r) THEN Brevo2Success(MsgCreadoSinTelefono, f)
  ELSE Brevo2FinalError(InitialResp)

Brevo2OnRetry(r) ==
  /\ pc = "retry"
  /\ variant = "brevo2"
  /\ \E f \in {BrevoFields(req.body)} :
       Step(r, 0, IF r.kind # "throw" /\ ~Ok(r) THEN 1 ELSE 0,
             Brevo2AfterRetry(f, r))

-----------------------------------------------------------------------------
(* The CRM as a store of contacts, unique by email and by SMS: the          *)
(* collaborator behind POST /v3/contacts and PUT /v3/contacts/{email}      *)

MsgContactNotExist == <<"Contact", "does", "not", "exist">>

OtherEmail == <<"z", "@", "b", ".", "c">>

NoCrm == [on |-> FALSE]

Crm(upsert, contacts) == [on |-> TRUE, upsert |-> upsert, contacts |-> contacts]

PendingCall == calls[Len(calls)]

\* the SMS of the payload is attached to a contact of another email
CrmPhoneTaken(contacts, call) ==
  /\ "SMS" \in DOMAIN call.payload.attributes
  /\ \E c \in contacts :
        /\ c.email # call.payload.email
        /\ "SMS" \in DOMAIN c.attributes
        /\ c.attributes["SMS"] = call.payload.attributes["SMS"]

\* the contact a call is about: of the payload's email (POST), of the URL (PUT)
CrmKnown(contacts, call) ==
  {c \in contacts :
     IF call.method = "PUT" THEN EncodeURIComponent(c.email) = call.id
     ELSE c.email = call.payload.email}

\* the CRM's answer to a call. A POST for an email that has a contact updates it
\* and is answered 204 when the CRM honours updateEnabled (upsert), and is answered
\* 400 duplicate-email when it does not
CrmAnswer(c, call) ==
  IF call.path = SmtpPath THEN Resp(201, "json", "obj", "", NoMsg)
  ELSE IF CrmPhoneTaken(c.contacts, call)
  THEN Resp(400, "json", "obj", "duplicate_parameter", MsgSmsAssociated)
  ELSE IF call.method = "POST"
  THEN IF CrmKnown(c.contacts, call) = {} THEN Resp(201, "json", "obj", "", NoMsg)
       ELSE IF c.upsert THEN NoContent
       ELSE Resp(400, "json", "obj", "duplicate_parameter", MsgContactExists)
  ELSE IF CrmKnown(c.contacts, call) = {}
       THEN Resp(404, "json", "obj", "document_not_found", MsgContactNotExist)
       ELSE NoContent

\* the contact after an accepted call: the payload's attributes over the old ones
CrmMerged(old, p) ==
  [email |-> old.email, attributes |-> p.attributes @@ old.attributes,
   listIds |-> p.listIds]

\* the store after the call, answered r
CrmApply(c, call, r) ==
  IF call.path = SmtpPath \/ ~Ok(r) THEN c
  ELSE LET known == CrmKnown(c.contacts, call)
       IN  IF known = {}
           THEN [c EXCEPT !.contacts =
                   @ \cup {[email |-> call.payload.email,
                            attributes |-> call.payload.attributes,
                            listIds |-> call.payload.listIds]}]
           ELSE [c EXCEPT !.contacts =
                   (@ \ known) \cup {CrmMerged(k, call.payload) : k \in known}]

-----------------------------------------------------------------------------
(* The specifications                                                      *)

MaxRounds == 2

InitRequest ==
  /\ variant \in Variants
  /\ apiKey \in ApiKeys
  /\ listEnv \in ListEnvs
  /\ req \in Requests
  /\ variant = "server" => req.method = "POST"
  /\ listEnv # <<>> => req.body = FullLead
  /\ pc = "start"
  /\ calls = <<>>
  /\ http = <<>>
  /\ round = 1
  /\ history = <<>>

\* one request to one handler, every call answered freely
Init == InitRequest /\ crm = NoCrm

\* the payload of the initial create for the request
InitialPayload ==
  IF variant = "server" THEN ServerContactData(ServerFields(req.body), listEnv)
  ELSE IF variant = "brevo1" THEN Brevo1ContactData(BrevoFields(req.body), listEnv)
  ELSE Brevo2ContactData(BrevoFields(req.body), listEnv)

\* a contact of another email that holds the lead's SMS
PhoneHolder ==
  [email |-> OtherEmail,
   attributes |-> ("SMS" :> InitialPayload.attributes["SMS"]),
   listIds |-> <<>>]

\* a contact of the lead's email, of an earlier visit
EarlierVisit ==
  [email |-> InitialPayload.email,
   attributes |-> ("NOMBRE" :> <<"J">>),
   listIds |-> <<>>]

\* the stores a request can meet
InitialStores ==
  {{}} \cup (IF "SMS" \in DOMAIN InitialPayload.attributes
             THEN {{PhoneHolder}, {PhoneHolder, EarlierVisit}}
             ELSE {})

\* the same request submitted up to MaxRounds times to a CRM store
InitCRM ==
  /\ InitRequest
  /\ \E u \in BOOLEAN : \E st \in InitialStores : crm = Crm(u, st)

\* what the pending call can be answered with
\* a second run of the request is under way, to be given the answers of the first
Replaying == ~crm.on /\ history # <<>>

\* the answer the first run got to its call of the same position
ReplayedAnswers ==
  IF Len(calls) \in 1..Len(history[1].calls)
  THEN {history[1].calls[Len(calls)].resp}
  ELSE {}

Answers ==
  IF Replaying THEN ReplayedAnswers
  ELSE IF ~crm.on THEN Responses
  ELSE IF calls = <<>> THEN {}
  ELSE {CrmAnswer(crm, PendingCall)}

\* the store after the pending call is answered r
CrmNext(r) == IF crm.on THEN CrmApply(crm, PendingCall, r) ELSE crm

Brevo1Create == \E r \in Answers : Brevo1OnCreate(r) /\ crm' = CrmNext(r)

Brevo1Update == \E r \in Answers : Brevo1OnUpdate(r) /\ crm' = CrmNext(r)

Brevo1BackupPost == \E r \in Answers : Brevo1OnBackupPost(r) /\ crm' = CrmNext(r)

Brevo1BackupPut == \E r \in Answers : Brevo1OnBackupPut(r) /\ crm' = CrmNext(r)

ServerCreate == \E r \in Answers : ServerOnCreate(r) /\ crm' = CrmNext(r)

ServerRetry == \E r \in Answers : ServerOnRetry(r) /\ crm' = CrmNext(r)

ServerNotify == \E r \in Answers : ServerOnNotify(r) /\ crm' = CrmNext(r)

Brevo2Create == \E r \in Answers : Brevo2OnCreate(r) /\ crm' = CrmNext(r)

Brevo2Update == \E r \in Answers : Brevo2OnUpdate(r) /\ crm' = CrmNext(r)

Brevo2Retry == \E r \in Answers : Brevo2OnRetry(r) /\ crm' = CrmNext(r)

\* the client submits the same request again, once the response has come
Resubmit ==
  /\ pc = "done"
  /\ round < MaxRounds
  /\ history' = Append(history, [http |-> http, contacts |-> crm.contacts])
  /\ round' = round + 1
  /\ pc' = "start"
  /\ calls' = <<>>
  /\ http' = <<>>
  /\ UNCHANGED <<variant, apiKey, listEnv, req, crm>>

Next ==
  \/ ServerStart
  \/ ServerCreate
  \/ ServerRetry
  \/ ServerNotify
  \/ Brevo1Start
  \/ Brevo1Create
  \/ Brevo1Update
  \/ Brevo1BackupPost
  \/ Brevo1BackupPut
  \/ Brevo2Start
  \/ Brevo2Create
  \/ Brevo2Update
  \/ Brevo2Retry

NextCRM == Next \/ Resubmit

OtherKey == "xkeysib-2"

\* one request to one handler whose API key is set, every call answered freely:
\* the full lead, or the lead that fails validation
InitKeys ==
  /\ Init
  /\ apiKey # ""
  /\ listEnv = <<>>
  /\ req.body \in {FullLead, [FullLead EXCEPT !.name = <<"J">>]}

\* the same request runs again under another API key; its calls get the answers
\* the calls of the first run got
Rekey ==
  /\ pc = "done"
  /\ round = 1
  /\ ~crm.on
  /\ history' = <<[http |-> http, calls |-> calls]>>
  /\ apiKey' = OtherKey
  /\ round' = round + 1
  /\ pc' = "start"
  /\ calls' = <<>>
  /\ http' = <<>>
  /\ UNCHANGED <<variant, listEnv, req, crm>>

NextKeys == Next \/ Rekey

Spec == Init /\ [][Next]_vars

SpecCRM == InitCRM /\ [][NextCRM]_vars

SpecKeys == InitKeys /\ [][NextKeys]_vars

-----------------------------------------------------------------------------
(* Vocabulary of the properties                                            *)

Done == pc = "done"

\* the fields as the handler of the request reads them
Fields == IF variant = "server" THEN ServerFields(req.body) ELSE BrevoFields(req.body)

\* the message of the first validation rule the request fails, NoMsg if none
ValidationMessage == IF variant = "server" THEN ServerValidate(Fields) ELSE BrevoValidate(Fields)

\* a lead that passes validation, POSTed to a handler whose API key is set
ValidLead == req.method = "POST" /\ ValidationMessage = NoMsg /\ apiKey # ""

IsContactCall(c) == c.path = ContactsPath

ContactCalls == SelectSeq(calls, IsContactCall)

IsAnswered(c) == c.resp.kind \in {"resp", "throw"}

\* answered with a Response of a 2xx status
Answered2xx(c) == c.resp.kind = "resp" /\ Ok(c.resp)

\* the CRM's 400 for an email that already has a contact
IsDuplicateEmailAnswer(r) ==
  r = Resp(400, "json", "obj", "duplicate_parameter", MsgContactExists)

\* the CRM's 400 for a phone that is attached to another contact
IsPhoneConflictAnswer(r) ==
  r = Resp(400, "json", "obj", "duplicate_parameter", MsgSmsAssociated)

\* the unique phone attributes of a contact payload
HasUniquePhone(p) == {"SMS", "TELEFONO"} \cap DOMAIN p.attributes # {}

SentStatus == http[1].status

Success == Done /\ Len(http) = 1 /\ SentStatus = 200


-----------------------------------------------------------------------------
(* C1..C10                                                                 *)

\* C1: in every handler variant, when the initial create of a valid lead is
\* answered 400 duplicate-email, the next call is PUT /v3/contacts/{email} with the
\* full payload of the create, and once that PUT is answered with a 2xx status
\* the request has ended with HTTP 200.
C1_UpdateByEmailSucceeds ==
  (ValidLead /\ Len(calls) >= 1 /\ IsDuplicateEmailAnswer(calls[1].resp)) =>
     /\ Len(calls) >= 2
     /\ calls[2].method = "PUT"
     /\ calls[2].path = ContactsPath
     /\ calls[2].id = EncodeURIComponent(Fields.email)
     /\ calls[2].payload = calls[1].payload
     /\ Answered2xx(calls[2]) => Success

\* C2: in every handler variant, when the initial create of a valid lead with a
\* phone is answered 400 phone-already-associated, and the CRM rejects that way
\* every contact call carrying a unique phone attribute and accepts (201 with
\* the contact's JSON, or 204 No Content) every contact call carrying none, the
\* request ends with HTTP 200, and the last contact call is an accepted call
\* without unique phone attribute that carries the lead's email, names, company
\* (when non-empty) and list id.
CrmAccepts(r) == r = Resp(201, "json", "obj", "", NoMsg) \/ r = NoContent

PhoneConflictCrm ==
  \A i \in 1..Len(calls) :
     (IsContactCall(calls[i]) /\ IsAnswered(calls[i])) =>
        IF HasUniquePhone(calls[i].payload)
        THEN IsPhoneConflictAnswer(calls[i].resp)
        ELSE CrmAccepts(calls[i].resp)

CarriesLead(p) ==
  LET a == p.attributes
      f == Fields
  IN  /\ p.email = f.email
      /\ p.listIds = calls[1].payload.listIds
      /\ \/ ("NOMBRE" \in DOMAIN a /\ "APELLIDOS" \in DOMAIN a
               /\ a["NOMBRE"] = FirstName(f.name) /\ a["APELLIDOS"] = LastName(f.name))
         \/ ("FIRSTNAME" \in DOMAIN a /\ "LASTNAME" \in DOMAIN a
               /\ a["FIRSTNAME"] = FirstName(f.name) /\ a["LASTNAME"] = LastName(f.name))
      /\ f.company # <<>> =>
            \/ ("EMPRESA" \in DOMAIN a /\ a["EMPRESA"] = f.company)
            \/ ("COMPANY" \in DOMAIN a /\ a["COMPANY"] = f.company)

C2_PhoneConflictSucceeds ==
  (Done /\ ValidLead /\ Fields.phone # <<>> /\ Len(calls) >= 1
     /\ IsPhoneConflictAnswer(calls[1].resp) /\ PhoneConflictCrm) =>
     LET last == ContactCalls[Len(ContactCalls)]
     IN  /\ Success
         /\ Len(ContactCalls) >= 2
         /\ ~HasUniquePhone(last.payload)
         /\ Answered2xx(last)
         /\ CarriesLead(last.payload)

\* C3: in every handler variant, when the initial create of a valid lead is
\* answered with a 2xx status, no further contact call is issued and the request
\* ends with HTTP 200.
C3_CreateSucceeds ==
  (ValidLead /\ Len(calls) >= 1 /\ Answered2xx(calls[1])) =>
     /\ Len(ContactCalls) = 1
     /\ Done => Success

\* C5: in every handler variant, with the API key unset no outbound call (contact
\* call or notification email) is ever made.
C5_NoCallWithoutKey == apiKey = "" => calls = <<>>

C5_Witness == apiKey = "" /\ Done /\ req.method = "POST" /\ ValidationMessage = NoMsg

C7_NoContentIsSuccess ==
  variant = "brevo1" =>
     \A i \in 1..Len(calls) :
        (calls[i].resp.kind = "resp" /\ calls[i].resp.status = 204) =>
           /\ handleBrevoResponse(calls[i].resp).ok
           /\ calls[i].hdrReads = 0
           /\ calls[i].bodyReads = 0
           /\ i = Len(calls)
           /\ Success

C7_Witness ==
  variant = "brevo1" /\ Len(calls) = 4 /\ calls[4].method = "PUT"
    /\ calls[4].resp = NoContent /\ Success

\* C8: handleBrevoResponse returns ok: true for every response of a 2xx status,
\* whatever its content-type and body.
C8_Every2xxIsOk ==
  variant = "brevo1" =>
     \A i \in 1..Len(calls) : Answered2xx(calls[i]) => handleBrevoResponse(calls[i].resp).ok

\* C9: in the Express handler and in the second handler of brevo.js, an initial
\* create answered 2xx ends the request with HTTP 200, never 500, also when the
\* answer is a 204 No Content, has no JSON content-type, or has a body that fails
\* to parse.
NoJsonBody(r) ==
  r.kind = "resp" /\ r.body # "broken"
    /\ (r.status = 204 \/ ~IsJson(r) \/ ParseThrows(TextOf(r)))

C9_2xxWithoutJsonSucceeds ==
  (variant \in {"server", "brevo2"} /\ Done /\ Len(calls) >= 1
     /\ Answered2xx(calls[1]) /\ NoJsonBody(calls[1].resp)) => Success

\* C10: in the Express handler, whatever the notification call does (2xx, non-2xx,
\* a network exception, a failure reading the error body), the client receives the
\* HTTP 200 success response, the same as when the notification succeeds.
C10_NotifyNeverChangesResponse ==
  (variant = "server" /\ Done /\ Len(calls) >= 1 /\ calls[Len(calls)].path = SmtpPath) =>
     http = <<[status |-> 200,
               body |-> [success |-> TRUE, message |-> MsgEnviado,
                         id |-> ServerId(calls[1].resp)]]>>

C10_Witness ==
  variant = "server" /\ Done /\ Len(calls) >= 1 /\ calls[Len(calls)].path = SmtpPath
    /\ calls[Len(calls)].resp.kind = "resp" /\ ~Ok(calls[Len(calls)].resp)
    /\ calls[Len(calls)].resp.body = "broken"


\* C4: the same valid lead submitted twice in sequence to a CRM that enforces
\* uniqueness of email and of phone gets HTTP 200 both times, and after the second
\* submission the CRM holds exactly one contact of that email, with the attribute
\* values it had after the first.
ContactsOfLead(contacts) == {c \in contacts : c.email = Fields.email}

C4_ResubmissionIsIdempotent ==
  (round = 2 /\ Done /\ ValidLead) =>
     /\ history[1].http = <<[status |-> 200, body |-> history[1].http[1].body]>>
     /\ Success
     /\ Cardinality(ContactsOfLead(crm.contacts)) = 1
     /\ ContactsOfLead(crm.contacts) = ContactsOfLead(history[1].contacts)

-----------------------------------------------------------------------------
(* C11..C20                                                                *)

\* C11: in the Express handler, whenever the notification POST /v3/smtp/email is
\* issued, the last contact call of the request before it (the initial create or
\* the retry without phone) was answered with a 2xx status.
C11_NotifyOnlyAfterSuccess ==
  variant = "server" =>
     \A i \in 1..Len(calls) :
        calls[i].path = SmtpPath => (i > 1 /\ Answered2xx(calls[i - 1]))

\* C12: in every handler variant the validation rules are applied in the order
\* name, missing email, email format, phone, message; a POST request that fails
\* one of them is answered HTTP 400 with the message of the first rule it fails,
\* and no CRM call is made for it.
FirstFailingRule(f) ==
  IF NameInvalid(f) THEN MsgNombreRequerido
  ELSE IF EmailMissing(f) THEN MsgEmailRequerido
  ELSE IF EmailBadFormat(f) THEN MsgEmailFormato
  ELSE IF PhoneInvalid(f) THEN MsgTelefonoCorto
  ELSE IF MessageInvalid(f) THEN MsgMensajeRequerido
  ELSE NoMsg

C12_FirstFailingRuleDecides ==
  (req.method = "POST" /\ FirstFailingRule(Fields) # NoMsg) =>
     /\ calls = <<>>
     /\ Done => (/\ Len(http) = 1
                 /\ SentStatus = 400
                 /\ http[1].body.error = FirstFailingRule(Fields))

\* C13: in every handler variant a POST request that passes the name and email
\* rules and has a non-empty phone is answered HTTP 400 (phone too short) exactly
\* when the phone has fewer than 7 characters after the separators space, '-',
\* '(', ')' and '.' are stripped.
PhoneRuleReached ==
  /\ req.method = "POST"
  /\ Done
  /\ ~NameInvalid(Fields) /\ ~EmailMissing(Fields) /\ ~EmailBadFormat(Fields)
  /\ Fields.phone # <<>>

C13_ShortPhoneRejected ==
  PhoneRuleReached =>
     ((Len(PhoneCleaned(Fields.phone)) < MinPhoneLen)
        <=> (SentStatus = 400 /\ http[1].body.error = MsgTelefonoCorto))

\* C14: both handlers of brevo.js answer a request whose method is not POST with
\* HTTP 405 as their only step: whatever the body and the configuration, no
\* validation error, no configuration error and no CRM call comes of it.
C14_NonPostIs405 ==
  (variant \in {"brevo1", "brevo2"} /\ req.method # "POST" /\ pc # "start") =>
     /\ Done
     /\ calls = <<>>
     /\ Len(http) = 1
     /\ SentStatus = 405
     /\ http[1].body.error = MsgMetodo

C14_Witness ==
  variant \in {"brevo1", "brevo2"} /\ req.method # "POST" /\ Done
    /\ apiKey = "" /\ ValidationMessage # NoMsg /\ SentStatus = 405

\* C15: in every handler variant a request that names its fields Nombre, Empresa,
\* Email, Telefono, Mensaje is validated and forwarded to the CRM exactly as the
\* request that carries the same values under name, company, email, phone,
\* message: same validation outcome, same payload of the initial create.
EnglishName ==
  [Nombre |-> "name", Empresa |-> "company", Email |-> "email",
   Telefono |-> "phone", Mensaje |-> "message"]

\* the body with every Spanish field name replaced by the English one
English(body) ==
  LET spanish == DOMAIN body \cap DOMAIN EnglishName
      plain   == DOMAIN body \ DOMAIN EnglishName
  IN  [k \in plain \cup {EnglishName[x] : x \in spanish} |->
         IF k \in plain THEN body[k]
         ELSE body[CHOOSE x \in spanish : EnglishName[x] = k]]

UsesAliases == DOMAIN req.body \cap DOMAIN EnglishName # {}

C15_AliasesAccepted ==
  LET e  == English(req.body)
      fe == IF variant = "server" THEN ServerFields(e) ELSE BrevoFields(e)
      ve == IF variant = "server" THEN ServerValidate(fe) ELSE BrevoValidate(fe)
      pe == IF variant = "server" THEN ServerContactData(fe, listEnv)
            ELSE IF variant = "brevo1" THEN Brevo1ContactData(fe, listEnv)
            ELSE Brevo2ContactData(fe, listEnv)
  IN  (UsesAliases /\ req.method = "POST" /\ apiKey # "" /\ pc # "start") =>
         IF ve # NoMsg
         THEN calls = <<>> /\ SentStatus = 400 /\ http[1].body.error = ve
         ELSE calls # <<>> /\ calls[1].payload = pe

\* C16: in every handler variant, when the initial create of a valid lead is
\* answered with a JSON error that is not about a duplicate, the request ends with
\* HTTP 500 whose body carries an error message and neither the CRM's error code
\* nor the CRM's HTTP status.
IsUpstreamRejection(r) ==
  /\ r.kind = "resp" /\ ~Ok(r) /\ IsJson(r) /\ r.body = "obj"
  /\ r.code # "duplicate_parameter"
  /\ ~Includes(MsgLower(r.msg), <<"duplicate">>)

C16_RejectionIsSanitized ==
  (ValidLead /\ Done /\ Len(calls) >= 1 /\ IsUpstreamRejection(calls[1].resp)) =>
     /\ Len(http) = 1
     /\ SentStatus = 500
     /\ "error" \in DOMAIN http[1].body
     /\ http[1].body.error # NoMsg
     /\ DOMAIN http[1].body \cap {"code", "status"} = {}

\* C17: in every handler variant, a run of a request under another (non-empty)
\* API key whose calls get the same answers ends with the same client responses,
\* status and body: no response carries the API key, and what an exception
\* carries (message, stack) is not part of the response either.
C17_ResponseIndependentOfKey ==
  (Replaying /\ round = 2 /\ Done) => http = history[1].http

C17_Witness ==
  /\ Replaying /\ round = 2 /\ Done
  /\ variant = "server"
  /\ Len(calls) = 1
  /\ calls[1].resp = Thrown
  /\ calls[1].key = OtherKey
  /\ history[1].calls[1].key # OtherKey
  /\ SentStatus = 500

\* C18: in every handler variant, a request that ends with the HTTP 200 success
\* response has had at least one contact call (POST /v3/contacts or
\* PUT /v3/contacts/{email}) answered with a 2xx status.
SomeContactCallAccepted ==
  \E i \in 1..Len(calls) : IsContactCall(calls[i]) /\ Answered2xx(calls[i])

C18_SuccessNeedsAcceptedCall == Success => SomeContactCallAccepted

\* C19 as stated: in every handler variant, when the initial create is answered 400
\* phone-already-associated the second call of the request is a POST /v3/contacts
\* with the payload of the create minus its phone attributes, never a PUT.
WithoutPhone(p) ==
  [p EXCEPT !.attributes =
     [k \in DOMAIN p.attributes \ {"SMS", "TELEFONO"} |-> p.attributes[k]]]

PhoneConflictAtCreate ==
  /\ ValidLead /\ Fields.phone # <<>>
  /\ Len(calls) >= 1 /\ IsPhoneConflictAnswer(calls[1].resp)

WithBackup(p) ==
  [p EXCEPT !.attributes = ("PHONE_BACKUP" :> PhoneLocal(Fields.phone)) @@ @]

PhoneConflictAtUpdate ==
  /\ variant = "brevo1" /\ ValidLead /\ Fields.phone # <<>>
  /\ Len(calls) >= 2 /\ calls[2].method = "PUT"
  /\ IsPhoneConflictAnswer(calls[2].resp)

\* a backup call the fetch of which rejected, or that handleBrevoResponse
\* classified as an error
BackupFailed(c) ==
  /\ "PHONE_BACKUP" \in DOMAIN c.payload.attributes
  /\ c.resp.kind = "throw" \/ ~handleBrevoResponse(c.resp).ok

C20_UpdateConflictGoesToBackup ==
  PhoneConflictAtUpdate =>
     /\ Len(calls) >= 3
     /\ calls[3].method = "POST"
     /\ calls[3].path = ContactsPath
     /\ "PHONE_BACKUP" \in DOMAIN calls[3].payload.attributes
     /\ (Done /\ SentStatus = 500) => BackupFailed(calls[Len(calls)])

-----------------------------------------------------------------------------
(* C21..C29                                                                *)

\* C21: in the Express handler and in the second handler of brevo.js, when the
\* retry POST /v3/contacts without phone is answered with a non-2xx status, no
\* further contact call is made and the request does not end with HTTP 200.
IsRetryCall(i) ==
  i > 1 /\ IsContactCall(calls[i]) /\ calls[i].method = "POST"

RetryRejected(i) ==
  IsRetryCall(i) /\ calls[i].resp.kind = "resp" /\ ~Ok(calls[i].resp)

C21_RejectedRetryIsFailure ==
  variant \in {"server", "brevo2"} =>
     \A i \in 1..Len(calls) :
        RetryRejected(i) =>
           /\ \A j \in (i + 1)..Len(calls) : ~IsContactCall(calls[j])
           /\ ~Success

\* C22 as stated: in every handler variant a request issues, after the initial
\* create, at most one remediation call for an email conflict (the PUT by email
\* with the payload of the create) and at most one remediation call for a phone
\* conflict (a call with another payload), and never the same call twice.
CallKey(c) == <<c.method, c.path, c.id, c.payload>>

NoCallTwice ==
  \A i, j \in 1..Len(calls) : i < j => CallKey(calls[i]) # CallKey(calls[j])

EmailRemediations ==
  {i \in 2..Len(calls) :
     IsContactCall(calls[i]) /\ calls[i].method = "PUT"
       /\ calls[i].payload = calls[1].payload}

PhoneRemediations ==
  {i \in 2..Len(calls) :
     IsContactCall(calls[i]) /\ calls[i].payload # calls[1].payload}

C22_OneCallPerConflict ==
  /\ Cardinality(EmailRemediations) <= 1
  /\ Cardinality(PhoneRemediations) <= 1
  /\ NoCallTwice


\* the CRM reports a phone problem only of a call that carries a phone
MentionsPhone(m) ==
  Includes(m, <<"SMS">>) \/ Includes(m, <<"phone">>) \/ Includes(m, <<"telefono">>)
    \/ Includes(m, <<"mobile">>)

CoherentAnswers ==
  \A i \in 1..Len(calls) :
     (IsContactCall(calls[i]) /\ MentionsPhone(calls[i].resp.msg)) =>
        HasUniquePhone(calls[i].payload)


\* C22 amended: when the CRM reports a phone problem only of calls that carry a
\* phone, a request never issues the same call twice, issues at most one PUT by
\* email with the payload of the create, and at most one remediation path for the
\* phone: one POST without phone in the Express handler and in the second handler
\* of brevo.js, the backup POST and then at most one backup PUT of the same
\* payload in the first handler; a request makes at most four contact calls.
PhonePathIsOne ==
  IF variant = "brevo1"
  THEN /\ Cardinality(PhoneRemediations) <= 2
       /\ \A i, j \in PhoneRemediations :
             /\ calls[i].payload = calls[j].payload
             /\ i < j => (calls[i].method = "POST" /\ calls[j].method = "PUT")
  ELSE /\ Cardinality(PhoneRemediations) <= 1
       /\ \A i \in PhoneRemediations : calls[i].method = "POST"

C22_OnePathPerConflict ==
  CoherentAnswers =>
     /\ NoCallTwice
     /\ Cardinality(EmailRemediations) <= 1
     /\ PhonePathIsOne
     /\ Len(ContactCalls) <= 4

C22_Witness ==
  /\ variant = "brevo1" /\ Done /\ CoherentAnswers
  /\ Len(calls) = 4
  /\ Cardinality(EmailRemediations) = 1
  /\ Cardinality(PhoneRemediations) = 2


\* the requests of the liveness check: a full lead, a lead without phone or
\* company, and a lead that fails validation
LiveBodies ==
  {FullLead,
   [name |-> NameMadonna, email |-> EmailUpperPadded, message |-> MessageOk],
   [FullLead EXCEPT !.name = <<"J">>]}

InitLive == Init /\ listEnv = <<>> /\ req.body \in LiveBodies

\* every fetch is awaited: each call is eventually answered or throws, and the
\* handler runs on from the answer
SpecLive == InitLive /\ [][Next]_vars /\ WF_vars(Next)

\* a fetch threw, or the body of an answer could not be read
SomethingThrew ==
  \E i \in 1..Len(calls) :
     \/ calls[i].resp.kind = "throw"
     \/ calls[i].resp.kind = "resp" /\ calls[i].resp.body = "broken"

\* C23: provided every remote call returns or throws, every request to every handler
\* eventually has exactly one HTTP response and keeps it: no path ends without a
\* response and none sends a second one, the paths where a call or a body read throws
\* included
C23_ExactlyOneResponse ==
  /\ <>[](Done /\ Len(http) = 1)
  /\ [](Len(http) <= 1)
  /\ [](Done => Len(http) = 1)

\* a request whose response came although a call threw or a body could not be read
C23_Witness == Done /\ Len(http) = 1 /\ SomethingThrew


InFlight == {i \in 1..Len(calls) : calls[i].resp.kind = "pending"}

\* C24: within one request the remote calls are issued one at a time: a call in
\* flight is the last call issued, the handler is then waiting for its answer, and
\* every earlier call has been answered and read; nothing is in flight once the
\* response is sent
C24_OneCallInFlight ==
  /\ Cardinality(InFlight) <= 1
  /\ \A i \in InFlight : i = Len(calls) /\ pc \notin {"start", "done"}
  /\ pc \notin {"start", "done"} => InFlight = {Len(calls)}

\* the fourth call of a request is in flight, the three before it answered
C24_Witness == Len(calls) = 4 /\ InFlight = {4}


\* the payloads of the backup-phone step of the first handler of src/api/brevo.js
IsBackupCall(c) == IsContactCall(c) /\ "PHONE_BACKUP" \in DOMAIN c.payload.attributes

BackupCalls == {i \in 1..Len(calls) : IsBackupCall(calls[i])}

\* the attributes of a payload other than the phone attributes
SameButPhone(p, q) ==
  /\ p.email = q.email
  /\ p.listIds = q.listIds
  /\ \A k \in {"NOMBRE", "APELLIDOS", "EMPRESA"} :
        /\ k \in DOMAIN p.attributes <=> k \in DOMAIN q.attributes
        /\ k \in DOMAIN p.attributes => p.attributes[k] = q.attributes[k]

\* C25: in the first handler of src/api/brevo.js the payload of the backup step, its
\* POST and its fallback PUT alike, carries the phone in PHONE_BACKUP (the local
\* number that the initial payload carried as SMS) and neither SMS nor TELEFONO;
\* its email, NOMBRE, APELLIDOS, EMPRESA and listIds are those of the initial payload
C25_BackupRelocatesPhone ==
  variant = "brevo1" =>
     \A i \in BackupCalls :
        LET p == calls[i].payload
            q == calls[1].payload
        IN  /\ i > 1
            /\ DOMAIN p.attributes \cap {"SMS", "TELEFONO"} = {}
            /\ p.attributes["PHONE_BACKUP"] # <<>>
            /\ p.attributes["PHONE_BACKUP"] = PhoneLocal(Fields.phone)
            /\ "SMS" \in DOMAIN q.attributes
            /\ p.attributes["PHONE_BACKUP"] = q.attributes["SMS"]
            /\ SameButPhone(p, q)

\* both backup calls were issued: the POST and, after it failed, the PUT
C25_Witness ==
  /\ variant = "brevo1"
  /\ \E i, j \in BackupCalls : calls[i].method = "POST" /\ calls[j].method = "PUT"
  /\ "EMPRESA" \in DOMAIN calls[1].payload.attributes


PhoneAttrs == {"SMS", "TELEFONO", "PHONE_BACKUP"}

\* the attributes of a payload that are not phone attributes
NonPhone(p) == [k \in DOMAIN p.attributes \ PhoneAttrs |-> p.attributes[k]]

IsTrimmedLower(e) ==
  \A k \in 1..Len(e) : ~IsWS(e[k]) /\ LowerChar(e[k]) = e[k]

\* C26: in every handler every contact call of a request (create, update by email,
\* retry without phone, backup) is keyed by the trimmed, lower-cased email, in its
\* payload and, for a PUT, in its URL, and carries the name attributes, the company
\* attribute and the list id of the initial payload: a remediation payload differs
\* from the initial one in its phone attributes only
C26_SameContactInEveryCall ==
  \A i \in 1..Len(calls) :
     IsContactCall(calls[i]) =>
        /\ calls[i].payload.email = Fields.email
        /\ IsTrimmedLower(calls[i].payload.email)
        /\ calls[i].method = "PUT" => calls[i].id = EncodeURIComponent(Fields.email)
        /\ calls[i].method = "POST" => calls[i].id = <<>>
        /\ calls[i].payload.listIds = calls[1].payload.listIds
        /\ calls[i].payload.updateEnabled = calls[1].payload.updateEnabled
        /\ NonPhone(calls[i].payload) = NonPhone(calls[1].payload)

\* a request with a company that issued a remediation call whose payload is not the
\* initial one
C26_Witness ==
  /\ Fields.company # <<>>
  /\ \E i \in 2..Len(calls) :
        IsContactCall(calls[i]) /\ calls[i].payload # calls[1].payload


\* the name of the company attribute in the handler's payloads
CompanyKey == IF variant = "brevo2" THEN "COMPANY" ELSE "EMPRESA"

\* C27: in every payload sent to the CRM by any handler, initial and remediation
\* payloads alike, the company attribute (EMPRESA, or COMPANY in the second handler
\* of src/api/brevo.js) is present if and only if the trimmed company field is not
\* empty, and then holds the trimmed field
C27_CompanyOnlyIfNonEmpty ==
  \A i \in 1..Len(calls) :
     IsContactCall(calls[i]) =>
        LET a == calls[i].payload.attributes
        IN  /\ CompanyKey \in DOMAIN a <=> Fields.company # <<>>
            /\ CompanyKey \in DOMAIN a => a[CompanyKey] = Fields.company
            /\ {"EMPRESA", "COMPANY"} \cap DOMAIN a \subseteq {CompanyKey}

\* a request whose company field is white space only has issued a remediation call
C27_Witness ==
  /\ "company" \in DOMAIN req.body
  /\ req.body.company # <<>>
  /\ Fields.company = <<>>
  /\ \E i \in 2..Len(calls) : IsContactCall(calls[i])


\* the tokens of a trimmed string, delimited by runs of white space
RECURSIVE WsTokens(_)
WsTokens(s) ==
  LET ws == {i \in 1..Len(s) : IsWS(s[i])}
  IN  IF s = <<>> THEN <<>>
      ELSE IF ws = {} THEN <<s>>
      ELSE IF Min(ws) = 1 THEN WsTokens(Tail(s))
      ELSE <<SubSeq(s, 1, Min(ws) - 1)>> \o WsTokens(SubSeq(s, Min(ws) + 1, Len(s)))

FirstNameKey == IF variant = "brevo2" THEN "FIRSTNAME" ELSE "NOMBRE"

LastNameKey == IF variant = "brevo2" THEN "LASTNAME" ELSE "APELLIDOS"

\* C28: in every handler the first-name attribute is the first white-space-delimited
\* token of the trimmed name and the last-name attribute is the remaining tokens
\* joined by single spaces ('' for a single token), also when the tokens are
\* separated by several spaces or by a tab
C28_NameSplitsOnWhitespace ==
  \A i \in 1..Len(calls) :
     IsContactCall(calls[i]) =>
        LET a == calls[i].payload.attributes
            t == WsTokens(Fields.name)
        IN  /\ a[FirstNameKey] = t[1]
            /\ a[LastNameKey] = Join(Tail(t))

\* the same for the names whose tokens are separated by one space, or that have one token
C28_SingleSpaceNames ==
  Fields.name \in {NameJane, NameMadonna} => C28_NameSplitsOnWhitespace


IsDigits(s) == \A k \in 1..Len(s) : IsDigit(s[k])

\* local is cleaned without its leading country code: '+' or '00', then 1 to 3 digits
IsLocalOf(local, cleaned) ==
  IF StartsWith(cleaned, <<"+">>)
  THEN \E n \in 1..MaxCountryCodeLen :
          /\ Len(cleaned) >= n + 1
          /\ IsDigits(SubSeq(cleaned, 2, n + 1))
          /\ local = SubSeq(cleaned, n + 2, Len(cleaned))
  ELSE IF StartsWith(cleaned, <<"0", "0">>)
  THEN \E n \in 1..MaxCountryCodeLen :
          /\ Len(cleaned) >= n + 2
          /\ IsDigits(SubSeq(cleaned, 3, n + 2))
          /\ local = SubSeq(cleaned, n + 3, Len(cleaned))
  ELSE local = cleaned

\* a '+' followed by digits only
IsE164(s) == s # <<>> /\ Head(s) = "+" /\ Tail(s) # <<>> /\ IsDigits(Tail(s))

\* C29: in the first handler of src/api/brevo.js, for a non-empty phone, the
\* local-number attribute TELEFONO is the phone without its separators and without a
\* leading country code ('+' or '00' and 1 to 3 digits), and the SMS attribute is a
\* full E.164 value, beginning with '+', that is not the local number
C29_LocalNumberAndE164Sms ==
  (variant = "brevo1" /\ Fields.phone # <<>>) =>
     \A i \in 1..Len(calls) :
        (IsContactCall(calls[i]) /\ "SMS" \in DOMAIN calls[i].payload.attributes) =>
           LET a == calls[i].payload.attributes
           IN  /\ IsLocalOf(a["TELEFONO"].v, PhoneCleaned(Fields.phone))
               /\ IsE164(a["SMS"])
               /\ a["SMS"] # a["TELEFONO"].v

\* what the payload carries instead: the local number in both attributes
C29_SmsIsLocalNumber ==
  (variant = "brevo1" /\ Fields.phone # <<>>) =>
     \A i \in 1..Len(calls) :
        (IsContactCall(calls[i]) /\ "SMS" \in DOMAIN calls[i].payload.attributes) =>
           LET a == calls[i].payload.attributes
           IN  /\ a["SMS"] = PhoneLocal(Fields.phone)
               /\ a["TELEFONO"].v = ParseInt(a["SMS"])
               /\ ~IsE164(a["SMS"])

=============================================================================
